---- MODULE Spec2Model ----
(***************************************************************************)
(* Model of four functions of ESMValTool:                                  *)
(*   - weighted_quantile and calculate_percentiles of                      *)
(*     diag_scripts/weighting/weighted_temperature_graph.py,               *)
(*   - main of diag_scripts/mlr/mask.py.                                   *)
(*   - EadyGrowthRate.vertical_integration of                              *)
(*     diag_scripts/primavera/eady_growth_rate/eady_growth_rate.py.        *)
(* Each function has its own specification: Spec (weighted_quantile),      *)
(* SpecCP (calculate_percentiles), SpecMask (main of mask.py) and          *)
(* SpecEady (vertical_integration).                                        *)
(* Floating-point numbers are modelled as exact rationals n/d; a zero      *)
(* denominator stands for the non-finite results of a division by zero     *)
(* (0/0 is NaN).  Rounding of IEEE doubles is not represented.             *)
(***************************************************************************)
EXTENDS Integers, Sequences, FiniteSets, TLC

VARIABLES
    args,                \* the arguments of the call to weighted_quantile
    pc,                  \* position inside weighted_quantile
    values,              \* local `values`
    quantiles,           \* local `quantiles`
    weights,             \* local `weights`
    idx,                 \* local `idx` (result of np.argsort)
    weighted_quantiles,  \* local `weighted_quantiles`
    result,              \* the returned array
    err,                 \* the exception that left the function, or "none"
    \* calculate_percentiles
    cp_args,             \* its arguments data, percentiles and weights
    cp_pc,               \* position inside calculate_percentiles
    cp_weights,          \* local `weights` (rebound on line 157)
    output,              \* local `output`
    cp_err,              \* the exception that left the function, or "none"
    \* main of mlr/mask.py
    cfg,                 \* the recipe configuration
    files,               \* what mlr.get_input_data finds for cfg
    m_pc,                \* position inside main
    input_data,          \* local `input_data`
    ref_ops,             \* masking operations applied to ref_cube so far
    ref_mask,            \* shape of local `ref_mask`, 0 before it exists
    loaded,              \* files read with iris.load_cube, in order
    saved,               \* files written with io.iris_save, in order
    m_err,               \* the exception that left main, or "none"
    \* EadyGrowthRate.vertical_integration
    vi_args,             \* its arguments x and y, one column along axis 1
    vi_pc,               \* position inside vertical_integration
    dxdy_0,              \* local `dxdy_0`
    dxdy_centre,         \* local `dxdy_centre`
    dxdy_end,            \* local `dxdy_end`
    dxdy                 \* local `dxdy`, returned at the end

wqVars == <<args, pc, values, quantiles, weights, idx, weighted_quantiles,
            result, err>>

cpVars == <<cp_args, cp_pc, cp_weights, output, cp_err>>

maskVars == <<cfg, files, m_pc, input_data, ref_ops, ref_mask, loaded, saved, m_err>>

eadyVars == <<vi_args, vi_pc, dxdy_0, dxdy_centre, dxdy_end, dxdy>>

vars == <<wqVars, cpVars, maskVars, eadyVars>>

(***************************** bounds **************************************)
MaxLen == 3        \* longest list of samples / weights
MaxVal == 3        \* samples are drawn from 1..MaxVal
MaxWeight == 2     \* weights are drawn from 0..MaxWeight
QDen == 4          \* quantiles are drawn from the grid k/QDen

\* an optional list argument: None, or a list
None == [given |-> FALSE, list |-> <<>>]

Given(l) == [given |-> TRUE, list |-> l]

(************************* rational arithmetic *****************************)
RECURSIVE GCD(_, _)
GCD(a, b) == IF b = 0 THEN a ELSE GCD(b, a % b)

Abs(x) == IF x < 0 THEN -x ELSE x

Sign(x) == IF x < 0 THEN -1 ELSE IF x > 0 THEN 1 ELSE 0

\* the canonical representative of n/d (d >= 0 after normalisation);
\* d = 0 keeps only the sign: 0/0 is NaN, 1/0 is +inf, -1/0 is -inf
Rat(n, d) ==
    IF d = 0 THEN [n |-> Sign(n), d |-> 0]
    ELSE LET g == GCD(Abs(n), Abs(d))
             s == Sign(d)
         IN  [n |-> (s * n) \div g, d |-> Abs(d) \div g]

FromInt(k) == [n |-> k, d |-> 1]

IsNaN(a) == a.d = 0 /\ a.n = 0

\* IEEE comparisons: every comparison with NaN is false
RatLt(a, b) ==
    /\ ~IsNaN(a) /\ ~IsNaN(b)
    /\ IF a.d = 0 /\ b.d = 0 THEN a.n < b.n
       ELSE IF a.d = 0 THEN a.n < 0
       ELSE IF b.d = 0 THEN b.n > 0
       ELSE a.n * b.d < b.n * a.d

RatEq(a, b) == ~IsNaN(a) /\ ~IsNaN(b) /\ a = b

RatLe(a, b) == RatLt(a, b) \/ RatEq(a, b)

RatAdd(a, b) ==
    IF a.d # 0 /\ b.d # 0 THEN Rat(a.n * b.d + b.n * a.d, a.d * b.d)
    ELSE IF IsNaN(a) \/ IsNaN(b) THEN Rat(0, 0)
    ELSE IF a.d = 0 /\ b.d = 0 THEN (IF a.n = b.n THEN a ELSE Rat(0, 0))
    ELSE IF a.d = 0 THEN a ELSE b

RatNeg(a) == [n |-> -a.n, d |-> a.d]

RatSub(a, b) == RatAdd(a, RatNeg(b))

RatMul(a, b) ==
    IF a.d # 0 /\ b.d # 0 THEN Rat(a.n * b.n, a.d * b.d)
    ELSE Rat(Sign(a.n) * Sign(b.n), 0)

RatDiv(a, b) ==
    IF a.d # 0 /\ b.d # 0 THEN Rat(a.n * b.d, a.d * b.n)
    ELSE IF a.d # 0 THEN (IF IsNaN(b) THEN Rat(0, 0) ELSE FromInt(0))
    ELSE IF b.d # 0 THEN Rat(a.n * (IF b.n < 0 THEN -1 ELSE 1), 0)
    ELSE Rat(0, 0)


(******************************* numpy *************************************)
\* np.ones(n)
Ones(n) == [i \in 1..n |-> 1]

\* the permutations of 1..n
Perms(n) == {p \in [1..n -> 1..n] : \A i, j \in 1..n : i # j => p[i] # p[j]}

\* (mutation of ArgSorts: the values are left in their input order)
ArgSortsUnsorted(v) == {[i \in 1..Len(v) |-> i]}

\* np.argsort(v) with the default kind, which is not stable: any permutation
\* that puts v in ascending order may come out
ArgSorts(v) ==
    {p \in Perms(Len(v)) : \A i \in 1..(Len(v) - 1) : v[p[i]] <= v[p[i + 1]]}

\* a[idx] for an index array idx (1-based here); an index beyond the array
\* raises IndexError
IndexInBounds(a, ix) == \A i \in 1..Len(ix) : ix[i] <= Len(a)

TakeIdx(a, ix) == [i \in 1..Len(ix) |-> a[ix[i]]]

\* np.cumsum(w)
RECURSIVE SumTo(_, _)
SumTo(w, i) == IF i = 0 THEN 0 ELSE SumTo(w, i - 1) + w[i]

CumSum(w) == [i \in 1..Len(w) |-> SumTo(w, i)]

\* a.min() and a.max() of an array of finite rationals
ArrMin(a) == CHOOSE m \in {a[i] : i \in 1..Len(a)} :
                 \A i \in 1..Len(a) : RatLe(m, a[i])

ArrMax(a) == CHOOSE m \in {a[i] : i \in 1..Len(a)} :
                 \A i \in 1..Len(a) : RatLe(a[i], m)

\* the index np.interp looks up for x in xp: the last j, searching upwards
\* from the first entry, with x >= xp[j] (linear_search / binary_search of
\* numpy's compiled_base.c); called only when xp[1] <= x <= xp[n] is not
\* refuted
RECURSIVE SearchFrom(_, _, _)
SearchFrom(x, xp, i) ==
    IF i <= Len(xp) /\ RatLe(xp[i], x) THEN SearchFrom(x, xp, i + 1) ELSE i - 1

\* np.interp(x, xp, fp) for one x: constant fp[1] left of xp, fp[n] right of
\* it, linear in between; a NaN result falls back as numpy does
InterpOne(x, xp, fp) ==
    LET n == Len(xp)
    IN  IF RatLt(xp[n], x) THEN fp[n]
        ELSE IF RatLt(x, xp[1]) THEN fp[1]
        ELSE LET j == SearchFrom(x, xp, 2)
             IN  IF j = n THEN fp[n]
                 ELSE IF RatEq(xp[j], x) THEN fp[j]
                 ELSE LET slope == RatDiv(RatSub(fp[j + 1], fp[j]),
                                          RatSub(xp[j + 1], xp[j]))
                          r1 == RatAdd(RatMul(slope, RatSub(x, xp[j])), fp[j])
                          r2 == RatAdd(RatMul(slope, RatSub(x, xp[j + 1])),
                                       fp[j + 1])
                      IN  IF ~IsNaN(r1) THEN r1
                          ELSE IF ~IsNaN(r2) THEN r2
                          ELSE IF RatEq(fp[j], fp[j + 1]) THEN fp[j]
                          ELSE r2

np_interp(xs, xp, fp) == [i \in 1..Len(xs) |-> InterpOne(xs[i], xp, fp)]

(************************* weighted_quantile *******************************)
\* lines 53-55: weights default to np.ones(len(values))
DefaultWeights(w, vals) == IF w = None THEN Ones(Len(vals)) ELSE w.list

\* (mutation of QuantilesValid: np.any in place of np.all)
QuantilesValidAny(qs) ==
    \E i \in 1..Len(qs) : RatLe(FromInt(0), qs[i]) /\ RatLe(qs[i], FromInt(1))

\* line 57: np.all((quantiles >= 0) & (quantiles <= 1))
QuantilesValid(qs) ==
    \A i \in 1..Len(qs) : RatLe(FromInt(0), qs[i]) /\ RatLe(qs[i], FromInt(1))

\* (mutation of MidPositions: np.cumsum(weights) - 0.5)
MidPositionsHalf(w) ==
    [i \in 1..Len(w) |-> RatSub(FromInt(CumSum(w)[i]), Rat(1, 2))]

\* line 64: np.cumsum(weights) - 0.5 * weights
MidPositions(w) ==
    [i \in 1..Len(w) |->
        RatSub(FromInt(CumSum(w)[i]), RatMul(Rat(1, 2), FromInt(w[i])))]

\* (mutation of CastToUnit: max_val taken after min_val is subtracted)
CastToUnitSpan(wq) ==
    LET min_val == ArrMin(wq)
        shifted == [i \in 1..Len(wq) |-> RatSub(wq[i], min_val)]
        max_val == ArrMax(shifted)
    IN  [i \in 1..Len(wq) |-> RatDiv(shifted[i], max_val)]

\* lines 67-69: (weighted_quantiles - min_val) / max_val, with min_val and
\* max_val both taken before the subtraction
CastToUnit(wq) ==
    LET min_val == ArrMin(wq)
        max_val == ArrMax(wq)
    IN  [i \in 1..Len(wq) |-> RatDiv(RatSub(wq[i], min_val), max_val)]

\* the values as the floating-point y-coordinates of np.interp
AsFloats(v) == [i \in 1..Len(v) |-> FromInt(v[i])]

\* lines 51-71 as a function of its arguments and of the order p that
\* np.argsort picks; defined for valid quantiles and enough weights
WeightedQuantileOf(vals, qs, w, p) ==
    np_interp(qs,
              CastToUnit(MidPositions(TakeIdx(DefaultWeights(w, vals), p))),
              AsFloats(TakeIdx(vals, p)))

\* lines 51-58
Enter ==
    /\ pc = "enter"
    /\ values' = args.values
    /\ quantiles' = args.quantiles
    /\ weights' = DefaultWeights(args.weights, args.values)
    /\ IF QuantilesValid(args.quantiles)
       THEN pc' = "sort" /\ err' = err
       ELSE pc' = "raised" /\ err' = "ValueError"
    /\ UNCHANGED <<args, idx, weighted_quantiles, result, cpVars, maskVars, eadyVars>>

\* lines 60-62
Sort ==
    /\ pc = "sort"
    /\ \E p \in ArgSorts(values) :
        /\ idx' = p
        /\ values' = TakeIdx(values, p)
        /\ IF IndexInBounds(weights, p)
           THEN weights' = TakeIdx(weights, p) /\ pc' = "normalize" /\ err' = err
           ELSE weights' = weights /\ pc' = "raised" /\ err' = "IndexError"
    /\ UNCHANGED <<args, quantiles, weighted_quantiles, result, cpVars, maskVars, eadyVars>>

\* lines 64-69
Normalize ==
    /\ pc = "normalize"
    /\ weighted_quantiles' = CastToUnit(MidPositions(weights))
    /\ pc' = "interp"
    /\ UNCHANGED <<args, values, quantiles, weights, idx, result, err,
                   cpVars, maskVars, eadyVars>>

\* line 71
Interp ==
    /\ pc = "interp"
    /\ result' = np_interp(quantiles, weighted_quantiles, AsFloats(values))
    /\ pc' = "returned"
    /\ UNCHANGED <<args, values, quantiles, weights, idx, weighted_quantiles, err,
                   cpVars, maskVars, eadyVars>>

(****************************** inputs *************************************)
SeqsUpTo(S, lo, hi) == UNION {[1..n -> S] : n \in lo..hi}

SampleLists == SeqsUpTo(1..MaxVal, 1, MaxLen)

WeightLists == SeqsUpTo(0..MaxWeight, 0, MaxLen)

\* the quantile requests: every grid point of [0, 1] in one list, and that
\* list with its first or last entry replaced by a value just outside [0, 1]
GridList == [i \in 1..(QDen + 1) |-> Rat(i - 1, QDen)]

OutOfRange == {Rat(-1, QDen), Rat(QDen + 1, QDen)}

BadLists == {[GridList EXCEPT ![i] = b] : i \in {1, QDen + 1}, b \in OutOfRange}

QuantileLists == {GridList} \cup BadLists

\* no call of weighted_quantile, calculate_percentiles or main under way
IdleWQ ==
    /\ args = [values |-> <<>>, quantiles |-> <<>>, weights |-> None]
    /\ pc = "idle"
    /\ values = <<>> /\ quantiles = <<>> /\ weights = <<>> /\ idx = <<>>
    /\ weighted_quantiles = <<>> /\ result = <<>> /\ err = "none"

IdleCP ==
    /\ cp_args = <<>> /\ cp_pc = "idle" /\ cp_weights = <<>>
    /\ output = <<>> /\ cp_err = "none"

IdleMask ==
    /\ cfg = <<>> /\ files = <<>> /\ m_pc = "idle" /\ input_data = <<>>
    /\ ref_ops = <<>> /\ ref_mask = 0 /\ loaded = <<>> /\ saved = <<>>
    /\ m_err = "none"

IdleEady ==
    /\ vi_args = <<>> /\ vi_pc = "idle" /\ dxdy_0 = <<>> /\ dxdy_centre = <<>>
    /\ dxdy_end = <<>> /\ dxdy = <<>>

\* one call of weighted_quantile
Init ==
    /\ args \in [values : SampleLists,
                 quantiles : QuantileLists,
                 weights : {Given(w) : w \in WeightLists} \cup {None}]
    /\ pc = "enter"
    /\ values = <<>>
    /\ quantiles = <<>>
    /\ weights = <<>>
    /\ idx = <<>>
    /\ weighted_quantiles = <<>>
    /\ result = <<>>
    /\ err = "none"
    /\ IdleCP /\ IdleMask /\ IdleEady

Next == Enter \/ Sort \/ Normalize \/ Interp

Spec == Init /\ [][Next]_vars

(*********************** calculate_percentiles *****************************)
MaxMembers == 2    \* most ensemble members in data
MaxTimes == 2      \* most time steps in data

\* the label of the i-th ensemble member
Member(i) == "m" \o ToString(i)

\* data.model_ensemble.values for n members
EnsembleOf(n) == [i \in 1..n |-> Member(i)]

\* the parameter names of weighted_quantile (lines 28-30)
WQParams == {"values", "quantiles", "weights"}

\* the keyword arguments apply_ufunc hands to weighted_quantile (lines 163-166)
UfuncKwargs == {"sample_weight", "quantiles"}

\* percentiles / 100 (line 165)
ToQuantiles(ps) == [i \in 1..Len(ps) |-> Rat(ps[i], 100)]

\* line 156: the truth value of `weights`: None and the empty dictionary
\* are false
Truthy(w) == w.given /\ DOMAIN w.list # {}

\* lines 156-157
CP_Lookup ==
    /\ cp_pc = "lookup"
    /\ IF ~Truthy(cp_args.weights)
       THEN cp_weights' = cp_args.weights /\ cp_pc' = "apply" /\ cp_err' = cp_err
       ELSE IF \E i \in 1..Len(cp_args.model_ensemble) :
                   cp_args.model_ensemble[i] \notin DOMAIN cp_args.weights.list
       THEN cp_weights' = cp_weights /\ cp_pc' = "raised" /\ cp_err' = "KeyError"
       ELSE /\ cp_weights' = Given([i \in 1..Len(cp_args.model_ensemble) |->
                                      cp_args.weights.list[cp_args.model_ensemble[i]]])
            /\ cp_pc' = "apply" /\ cp_err' = cp_err
    /\ UNCHANGED <<cp_args, output, wqVars, maskVars, eadyVars>>

\* the weights weighted_quantile is meant to receive: the list built on
\* line 157, or what was passed in when that is falsy (None; an empty
\* dictionary is taken as None here)
PassedWeights(w) == IF Truthy(w) THEN w ELSE None

\* lines 159-171: xr.apply_ufunc calls weighted_quantile once per time step
\* with the samples of all members and the keyword arguments of lines
\* 163-166; a keyword that is no parameter of weighted_quantile raises
\* TypeError in the first call
CP_Apply ==
    /\ cp_pc = "apply"
    /\ LET qs == ToQuantiles(cp_args.percentiles)
           n == Len(cp_args.model_ensemble)
           w == PassedWeights(cp_weights)
       IN  IF ~(UfuncKwargs \subseteq WQParams)
           THEN cp_pc' = "raised" /\ cp_err' = "TypeError" /\ output' = output
           ELSE IF ~QuantilesValid(qs)
           THEN cp_pc' = "raised" /\ cp_err' = "ValueError" /\ output' = output
           ELSE \E ps \in [1..Len(cp_args.data) -> Perms(n)] :
                   /\ \A t \in 1..Len(cp_args.data) : ps[t] \in ArgSorts(cp_args.data[t])
                   /\ output' = [percentiles |-> cp_args.percentiles,
                                 data |-> [t \in 1..Len(cp_args.data) |->
                                     WeightedQuantileOf(cp_args.data[t], qs, w, ps[t])]]
                   /\ cp_pc' = "returned" /\ cp_err' = cp_err
    /\ UNCHANGED <<cp_args, cp_weights, wqVars, maskVars, eadyVars>>

\* the percentile lists of the calls: main asks for [25, 75] (line 184)
PercentileLists == {<<25, 75>>, <<0, 50, 100>>, <<50>>}

\* weights dictionaries: every subset of the member labels as keys
WeightDicts(n) ==
    UNION {[K -> 1..MaxWeight] : K \in SUBSET {Member(i) : i \in 1..(n + 1)}}

InitCP ==
    /\ \E n \in 1..MaxMembers, nt \in 1..MaxTimes :
        cp_args \in [model_ensemble : {EnsembleOf(n)},
                     data : [1..nt -> [1..n -> 1..MaxVal]],
                     percentiles : PercentileLists,
                     weights : {Given(d) : d \in WeightDicts(n)} \cup {None}]
    /\ cp_pc = "lookup"
    /\ cp_weights = <<>>
    /\ output = <<>>
    /\ cp_err = "none"
    /\ IdleWQ /\ IdleMask /\ IdleEady

NextCP == CP_Lookup \/ CP_Apply

SpecCP == InitCP /\ [][NextCP]_vars

(**************************** mlr/mask.py **********************************)
MaxData == 3       \* most input datasets
MaxShape == 2      \* cube shapes are drawn from 1..MaxShape

\* the options check_cfg asks for (line 48)
NecessaryOptions == <<"reference_dataset", "masking_operations">>

\* keys a recipe may give in masking_operations; the first two are
\* functions of numpy.ma, the last is not
OperationNames == {"masked_invalid", "masked_equal", "masked_bogus"}

NumpyMa == {"masked_invalid", "masked_equal"}

\* (mutation of HasAttrNumpyMa: the operation is not looked up)
HasAttrSkipped(masking_op) == TRUE

\* line 66: hasattr(np.ma, masking_op)
HasAttrNumpyMa(masking_op) == masking_op \in NumpyMa

\* line 58: select_metadata(input_data, **ref_metadata); whether a dataset
\* carries the reference metadata is part of the input
SelectMetadata(data) == SelectSeq(data, LAMBDA d : d.is_ref)

\* lines 46-52 (called on line 76)
CheckCfg ==
    /\ m_pc = "check_cfg"
    /\ IF \E i \in 1..Len(NecessaryOptions) : NecessaryOptions[i] \notin cfg.options
       THEN m_pc' = "raised" /\ m_err' = "ValueError"
       ELSE m_pc' = "get_input_data" /\ m_err' = m_err
    /\ UNCHANGED <<cfg, files, input_data, ref_ops, ref_mask, loaded, saved,
                   wqVars, cpVars, eadyVars>>

\* line 77
GetInputData ==
    /\ m_pc = "get_input_data"
    /\ input_data' = files
    /\ m_pc' = "select_ref"
    /\ UNCHANGED <<cfg, files, ref_ops, ref_mask, loaded, saved, m_err,
                   wqVars, cpVars, eadyVars>>

\* lines 57-64 of get_ref_mask: the reference dataset is selected and loaded
SelectRef ==
    /\ m_pc = "select_ref"
    /\ LET ref_datasets == SelectMetadata(input_data)
       IN  IF Len(ref_datasets) # 1
           THEN m_pc' = "raised" /\ m_err' = "ValueError" /\ loaded' = loaded
           ELSE /\ loaded' = Append(loaded, ref_datasets[1].filename)
                /\ m_pc' = "masking_ops" /\ m_err' = m_err
    /\ UNCHANGED <<cfg, files, input_data, ref_ops, ref_mask, saved, wqVars, cpVars, eadyVars>>

\* the shape of the cube in the file named fn (file names are positions in
\* input_data)
ShapeOf(fn) == input_data[fn].shape

\* lines 65-71 of get_ref_mask: one turn of the loop over the masking
\* operations, or its end and the return of the mask, which has the shape
\* of ref_cube (the first file loaded)
MaskingOp ==
    /\ m_pc = "masking_ops"
    /\ IF Len(ref_ops) = Len(cfg.masking_operations)
       THEN /\ ref_mask' = ShapeOf(loaded[1])
            /\ m_pc' = "datasets" /\ UNCHANGED <<ref_ops, m_err>>
       ELSE LET masking_op == cfg.masking_operations[Len(ref_ops) + 1]
            IN  IF ~HasAttrNumpyMa(masking_op)
                THEN m_pc' = "raised" /\ m_err' = "ValueError"
                     /\ UNCHANGED <<ref_ops, ref_mask>>
                ELSE ref_ops' = Append(ref_ops, masking_op)
                     /\ UNCHANGED <<m_pc, m_err, ref_mask>>
    /\ UNCHANGED <<cfg, files, input_data, loaded, saved, wqVars, cpVars, eadyVars>>

\* the number of loads for masking so far (line 84): all loads but the
\* reference's
NumProcessed == Len(loaded) - 1

\* (mutation of ProcessDataset: the cube is masked and saved before its
\* shape is checked)
ProcessDatasetSaveFirst ==
    /\ m_pc = "datasets"
    /\ IF NumProcessed = Len(input_data)
       THEN m_pc' = "done" /\ UNCHANGED <<loaded, saved, m_err>>
       ELSE LET dataset == input_data[NumProcessed + 1]
            IN  /\ loaded' = Append(loaded, dataset.filename)
                /\ saved' = Append(saved, dataset.filename)
                /\ IF dataset.shape # ref_mask
                   THEN m_pc' = "raised" /\ m_err' = "ValueError"
                   ELSE UNCHANGED <<m_pc, m_err>>
    /\ UNCHANGED <<cfg, files, input_data, ref_ops, ref_mask, wqVars, cpVars, eadyVars>>

\* lines 81-96: one turn of the loop over input_data, or its end
ProcessDataset ==
    /\ m_pc = "datasets"
    /\ IF NumProcessed = Len(input_data)
       THEN m_pc' = "done" /\ UNCHANGED <<loaded, saved, m_err>>
       ELSE LET dataset == input_data[NumProcessed + 1]
            IN  /\ loaded' = Append(loaded, dataset.filename)
                /\ IF dataset.shape # ref_mask
                   THEN m_pc' = "raised" /\ m_err' = "ValueError" /\ saved' = saved
                   ELSE saved' = Append(saved, dataset.filename)
                        /\ UNCHANGED <<m_pc, m_err>>
    /\ UNCHANGED <<cfg, files, input_data, ref_ops, ref_mask, wqVars, cpVars, eadyVars>>

\* the lists of n datasets: the i-th has file name i
DatasetLists(n) ==
    {[i \in 1..n |-> [filename |-> i, is_ref |-> r[i], shape |-> sh[i]]] :
        r \in [1..n -> BOOLEAN], sh \in [1..n -> 1..MaxShape]}

\* the orders in which a dictionary can hold some of the operation names
OperationLists ==
    {l \in SeqsUpTo(OperationNames, 0, Cardinality(OperationNames)) :
        \A i, j \in 1..Len(l) : i # j => l[i] # l[j]}

\* the recipes: any subset of the necessary options, and masking operations
\* when that option is given
Configs ==
    {[options |-> o, masking_operations |-> l] :
        o \in SUBSET {NecessaryOptions[i] : i \in 1..Len(NecessaryOptions)},
        l \in OperationLists}

InitMask ==
    /\ cfg \in {c \in Configs :
                  "masking_operations" \notin c.options => c.masking_operations = <<>>}
    /\ files \in UNION {DatasetLists(n) : n \in 0..MaxData}
    /\ m_pc = "check_cfg"
    /\ input_data = <<>>
    /\ ref_ops = <<>>
    /\ ref_mask = 0
    /\ loaded = <<>>
    /\ saved = <<>>
    /\ m_err = "none"
    /\ IdleWQ /\ IdleCP /\ IdleEady

NextMask == CheckCfg \/ GetInputData \/ SelectRef \/ MaskingOp \/ ProcessDataset

SpecMask == InitMask /\ [][NextMask]_vars

(******************* EadyGrowthRate.vertical_integration *******************)
MaxLevels == 3     \* most pressure levels (axis 1) of x and y
MaxX == 2          \* the entries of x and y are drawn from 0..MaxX

\* a[lo:hi] along axis 1 for 0 <= lo and 0 <= hi <= Len(a) (Python counts
\* from 0 and excludes hi)
PySlice(a, lo, hi) == SubSeq(a, lo + 1, hi)

\* (x_hi - x_lo) / (y_hi - y_lo) in floating point
Quotient(x_hi, x_lo, y_hi, y_lo) ==
    RatDiv(RatSub(FromInt(x_hi), FromInt(x_lo)), RatSub(FromInt(y_hi), FromInt(y_lo)))

\* the same, element by element, for slices of equal length
Quotients(x_hi, x_lo, y_hi, y_lo) ==
    [i \in 1..Len(x_hi) |-> Quotient(x_hi[i], x_lo[i], y_hi[i], y_lo[i])]

\* (mutation of Roll: the array is rolled the other way)
RollBack(a, shift) ==
    [i \in 1..Len(a) |-> a[((i - 1 + shift) % Len(a)) + 1]]

\* da.roll(a, shift, axis=1)
Roll(a, shift) ==
    [i \in 1..Len(a) |-> a[((i - 1 - shift) % Len(a)) + 1]]

\* lines 109-122
VI_Differences ==
    /\ vi_pc = "enter"
    /\ LET x == vi_args.x
           y == vi_args.y
           plevs == Len(x)
       IN  /\ dxdy_0' = Quotient(x[2], x[1], y[2], y[1])
           /\ dxdy_centre' = Quotients(PySlice(x, 2, plevs), PySlice(x, 0, plevs - 2),
                                       PySlice(y, 2, plevs), PySlice(y, 0, plevs - 2))
           /\ dxdy_end' = Quotient(x[plevs], x[plevs - 1], y[plevs], y[plevs - 1])
    /\ vi_pc' = "concatenate"
    /\ UNCHANGED <<vi_args, dxdy, wqVars, cpVars, maskVars>>

\* lines 124-129
VI_Concatenate ==
    /\ vi_pc = "concatenate"
    /\ LET bounds == <<dxdy_end, dxdy_0>>
           stacked_bounds == bounds
       IN  dxdy' = dxdy_centre \o stacked_bounds
    /\ vi_pc' = "roll"
    /\ UNCHANGED <<vi_args, dxdy_0, dxdy_centre, dxdy_end, wqVars, cpVars, maskVars>>

\* lines 132-134
VI_Roll ==
    /\ vi_pc = "roll"
    /\ dxdy' = Roll(dxdy, 1)
    /\ vi_pc' = "returned"
    /\ UNCHANGED <<vi_args, dxdy_0, dxdy_centre, dxdy_end, wqVars, cpVars, maskVars>>

\* x and y have the same shape, with two or more levels
InitEady ==
    /\ \E plevs \in 2..MaxLevels :
        vi_args \in [x : [1..plevs -> 0..MaxX], y : [1..plevs -> 0..MaxX]]
    /\ vi_pc = "enter"
    /\ dxdy_0 = <<>> /\ dxdy_centre = <<>> /\ dxdy_end = <<>> /\ dxdy = <<>>
    /\ IdleWQ /\ IdleCP /\ IdleMask

NextEady == VI_Differences \/ VI_Concatenate \/ VI_Roll

SpecEady == InitEady /\ [][NextEady]_vars

(************************ vocabulary of the claims **************************)
Returned == pc = "returned"

Raised == pc = "raised"

NumSamples == Len(args.values)

\* the weights the caller supplied have the length of the samples
WeightsMatch == args.weights.given /\ Len(args.weights.list) = NumSamples

\* the weights in effect: the supplied ones, or the implicit 1.0 per sample
EffectiveWeights ==
    IF args.weights.given THEN args.weights.list ELSE [i \in 1..NumSamples |-> 1]

AllWeightsPositive == \A i \in 1..Len(EffectiveWeights) : EffectiveWeights[i] > 0

SomeWeightPositive == \E i \in 1..Len(EffectiveWeights) : EffectiveWeights[i] > 0

InUnitInterval(q) == RatLe(FromInt(0), q) /\ RatLe(q, FromInt(1))

SomeQuantileOutside == \E i \in 1..Len(args.quantiles) : ~InUnitInterval(args.quantiles[i])

MinSample == CHOOSE m \in {args.values[i] : i \in 1..NumSamples} :
                 \A i \in 1..NumSamples : m <= args.values[i]

MaxSample == CHOOSE m \in {args.values[i] : i \in 1..NumSamples} :
                 \A i \in 1..NumSamples : m >= args.values[i]

\* the samples in ascending order
Ascending(v) == TakeIdx(v, CHOOSE p \in ArgSorts(v) : TRUE)

\* the linear-interpolation percentile of the ascending samples s at quantile
\* q: the value at fractional rank q * (N - 1)
LinearPercentile(s, q) ==
    LET rank == RatMul(q, FromInt(Len(s) - 1))
        lo == rank.n \div rank.d
        frac == RatSub(rank, FromInt(lo))
    IN  IF lo + 1 >= Len(s) THEN FromInt(s[Len(s)])
        ELSE RatAdd(FromInt(s[lo + 1]),
                    RatMul(frac, FromInt(s[lo + 2] - s[lo + 1])))

\* C1: called without weights, weighted_quantile returns for every quantile
\* the standard linear-interpolation percentile of the samples.
C1_UnweightedIsLinearPercentile ==
    (Returned /\ args.weights = None) =>
        \A i \in 1..Len(result) :
            RatEq(result[i], LinearPercentile(Ascending(args.values), args.quantiles[i]))

\* C2: with non-negative weights of the samples' length, one of them
\* positive, quantile 0 gives the smallest and quantile 1 the largest sample.
C2_BoundaryValues ==
    (Returned /\ WeightsMatch /\ SomeWeightPositive) =>
        \A i \in 1..Len(result) :
            /\ args.quantiles[i] = FromInt(0) => RatEq(result[i], FromInt(MinSample))
            /\ args.quantiles[i] = FromInt(1) => RatEq(result[i], FromInt(MaxSample))

\* C3: for fixed samples and non-negative weights, not all zero, a smaller
\* quantile never gets a larger result than a larger quantile.
C3_Monotone ==
    (Returned /\ (WeightsMatch \/ args.weights = None) /\ SomeWeightPositive) =>
        \A i, j \in 1..Len(result) :
            RatLt(args.quantiles[i], args.quantiles[j]) => RatLe(result[i], result[j])

C3_Witness ==
    /\ Returned /\ WeightsMatch /\ AllWeightsPositive
    /\ \E i, j \in 1..NumSamples : args.weights.list[i] # args.weights.list[j]
    /\ \E i, j \in 1..Len(result) :
        RatLt(args.quantiles[i], args.quantiles[j]) /\ RatLt(result[i], result[j])

\* every supplied weight is the same positive constant
UniformWeights ==
    /\ WeightsMatch
    /\ \A i \in 1..NumSamples : args.weights.list[i] = args.weights.list[1]
    /\ args.weights.list[1] > 0

C5_InvalidQuantileRaisesFirst ==
    SomeQuantileOutside =>
        /\ pc \in {"enter", "raised"}
        /\ Raised => err = "ValueError"
        /\ idx = <<>> /\ weighted_quantiles = <<>> /\ result = <<>>
        /\ values \in {<<>>, args.values}

C5_Witness ==
    /\ Raised /\ err = "ValueError"
    /\ SomeQuantileOutside
    /\ \E i \in 1..Len(args.quantiles) : InUnitInterval(args.quantiles[i])

\* C6: with every weight zero the call raises instead of returning.
C6_ZeroWeightsRaise ==
    (WeightsMatch /\ ~SomeWeightPositive) => ~Returned

\* C7: weights of another length than the samples make the call raise
\* before the samples are sorted, and nothing is returned.
C7_LengthMismatchRaisesFirst ==
    (args.weights.given /\ ~WeightsMatch) => (~Returned /\ idx = <<>>)

\* C10: for two or more samples with positive weights the normalized
\* positions span exactly [0, 1].
C10_NormalizedSpansUnit ==
    (pc \in {"interp", "returned"} /\ NumSamples >= 2
        /\ (WeightsMatch \/ args.weights = None) /\ AllWeightsPositive) =>
        /\ RatEq(ArrMin(weighted_quantiles), FromInt(0))
        /\ RatEq(ArrMax(weighted_quantiles), FromInt(1))

(* calculate_percentiles *)
CPFinished == cp_pc \in {"returned", "raised"}

\* C8: without weights calculate_percentiles completes and returns, per
\* percentile p, the non-weighted weighted_quantile of the members' values
\* at p / 100; with a weights dictionary it passes the weights looked up
\* per member in the order of data.model_ensemble.
C8_PercentilesComputed ==
    /\ (CPFinished /\ cp_args.weights = None) =>
          /\ cp_pc = "returned"
          /\ \A t \in 1..Len(cp_args.data) : \E p \in ArgSorts(cp_args.data[t]) :
                output.data[t] = WeightedQuantileOf(cp_args.data[t],
                                     ToQuantiles(cp_args.percentiles), None, p)
    /\ (CPFinished /\ Truthy(cp_args.weights)
          /\ \A i \in 1..Len(cp_args.model_ensemble) :
                cp_args.model_ensemble[i] \in DOMAIN cp_args.weights.list) =>
          /\ cp_pc = "returned"
          /\ \A t \in 1..Len(cp_args.data) : \E p \in ArgSorts(cp_args.data[t]) :
                output.data[t] = WeightedQuantileOf(cp_args.data[t],
                    ToQuantiles(cp_args.percentiles),
                    Given([i \in 1..Len(cp_args.model_ensemble) |->
                        cp_args.weights.list[cp_args.model_ensemble[i]]]), p)

(* mlr/mask.py *)
\* the configuration passes every check main makes before its loop
ConfigAccepted ==
    /\ \A i \in 1..Len(NecessaryOptions) : NecessaryOptions[i] \in cfg.options
    /\ Cardinality({i \in 1..Len(files) : files[i].is_ref}) = 1
    /\ \A i \in 1..Len(cfg.masking_operations) : cfg.masking_operations[i] \in NumpyMa

\* C9: main writes no file unless both options are given, exactly one
\* dataset is the reference and every masking operation is an attribute of
\* numpy.ma; otherwise it raises ValueError before it loads the first
\* dataset for masking.
C9_NoOutputUnlessConfigAccepted ==
    ~ConfigAccepted =>
        /\ saved = <<>>
        /\ m_pc \in {"check_cfg", "get_input_data", "select_ref", "masking_ops", "raised"}
        /\ Len(loaded) <= 1
        /\ m_pc = "raised" => m_err = "ValueError"
        /\ m_pc # "raised" => ENABLED NextMask

C9_Witness ==
    /\ ~ConfigAccepted
    /\ m_pc = "raised" /\ m_err = "ValueError"
    /\ ref_ops # <<>>
    /\ Len(input_data) >= 2

(* weighted_quantile: ties and single samples *)
\* C11: the result does not depend on the order in which the sort leaves
\* tied samples: every ascending order of the (sample, weight) pairs gives
\* the result returned.
C11_TieOrderIrrelevant ==
    (Returned /\ WeightsMatch /\ AllWeightsPositive) =>
        \A p \in ArgSorts(args.values) :
            result = WeightedQuantileOf(args.values, args.quantiles, args.weights, p)

SingleSample ==
    /\ NumSamples = 1
    /\ WeightsMatch \/ args.weights = None
    /\ AllWeightsPositive
    /\ ~SomeQuantileOutside

NumLevels == Len(vi_args.x)

\* (x[hi] - x[lo]) / (y[hi] - y[lo]) for levels hi and lo, counted from 1
DifferenceQuotient(hi, lo) ==
    Rat(vi_args.x[hi] - vi_args.x[lo], vi_args.y[hi] - vi_args.y[lo])

ReferenceShape ==
    LET r == CHOOSE i \in 1..Len(files) : files[i].is_ref IN files[r].shape

ShapeDiffers(k) == files[k].shape # ReferenceShape

SomeShapeDiffers == \E k \in 1..Len(files) : ShapeDiffers(k)

\* the first dataset, in input order, whose shape differs
FirstDiffering ==
    CHOOSE k \in 1..Len(files) :
        ShapeDiffers(k) /\ \A j \in 1..(k - 1) : ~ShapeDiffers(j)

\* the file names of the datasets before the k-th, in input order
FilesBefore(k) == [i \in 1..(k - 1) |-> files[i].filename]

\* C14: datasets are loaded, checked, masked and saved one at a time in
\* input order; when the k-th dataset's shape differs from the reference
\* mask's, main raises ValueError with the files of all datasets before the
\* k-th saved and no file saved for the k-th or any later one.
C14_SavedUpToFirstMismatch ==
    /\ m_pc \in {"datasets", "done", "raised"} /\ ConfigAccepted =>
          /\ saved = FilesBefore(Len(saved) + 1)
          /\ Len(loaded) - 1 \in {Len(saved), Len(saved) + 1}
    /\ (ConfigAccepted /\ SomeShapeDiffers) =>
          /\ m_pc # "done"
          /\ Len(saved) < FirstDiffering
          /\ m_pc = "raised" =>
                /\ m_err = "ValueError"
                /\ saved = FilesBefore(FirstDiffering)
                /\ loaded[Len(loaded)] = files[FirstDiffering].filename
          /\ m_pc # "raised" => ENABLED NextMask

C14_Witness ==
    /\ ConfigAccepted /\ SomeShapeDiffers
    /\ m_pc = "raised"
    /\ saved # <<>>
    /\ FirstDiffering < Len(files)

====
